---- MODULE Spec2Model ----
(***************************************************************************)
(* A model of grey_lit_search/utils.py: the summary log, the per-result    *)
(* download with its failure markers, the link recorder, the query runner  *)
(* and the per-result loop of search_and_download.                         *)
(*                                                                         *)
(* Text (links, file names, file contents, CSV rows) is a sequence of      *)
(* string tokens; a path is a pair (directory, file name).  The output     *)
(* directory base_dir is one directory tree: `dirs` is the set of          *)
(* directories that exist in it, `files` the set of files as triples       *)
(* <<directory, name, content>>, and `summary` is results_summary.csv.     *)
(*                                                                         *)
(* Every filesystem call of the code can fail in the environment (disk     *)
(* full, permissions): each operation takes a `fault` naming the call that *)
(* fails in this execution ("none" for a healthy run).                     *)
(***************************************************************************)
EXTENDS Integers, Sequences, FiniteSets, TLC

VARIABLES
    pc,          \* position of the driver: search_and_download or a direct caller
    url,         \* search_and_download's url argument
    resultsArg,  \* search_and_download's results argument
    fetchedUrl,  \* the URL get_webpage handed to requests.get (<<>> before the call)
    warned,      \* whether get_webpage emitted a SearchWarning
    seen,        \* the result records the iterator has yielded so far
    dirs,        \* directories existing under (and including) base_dir
    files,       \* files under base_dir, as <<directory, name, content>>
    summary,     \* results_summary.csv: [exists, lines]
    hist         \* one record per call of results_summary / save_pdf / save_link

vars == <<pc, url, resultsArg, fetchedUrl, warned, seen, dirs, files, summary, hist>>

---------------------------------------------------------------------------
(* Bounds of the exploration *)

MaxResults == 2     \* longest result sequence the iterator yields
MaxCalls == 2       \* direct save_pdf / save_link calls against one base_dir
MaxLogCalls == 3    \* direct results_summary calls against one base_dir

(* Program constants *)

ResultCeiling == 100    \* get_webpage: "if results > 100"
DefaultTimeout == 60    \* save_pdf(..., timeout=60)
RequestTimeout == 60    \* requests.get(..., timeout=60)
FillWidth == 3          \* str(search_num).zfill(3)

---------------------------------------------------------------------------
(* Input sets *)

Urls == { <<"www.google.com/search?q=x">>, <<"scholar.google.com/scholar?q=x">> }
ResultCounts == {-1, 50, 100, 101, 150}
Titles == { <<"t1">>, <<"t2">> }
Links == { <<"h", "/", "a.pdf">>, <<"h", "/", "d", "/">> }
Bodies == { <<"B1">>, <<"B2">> }
Timeouts == {5, 60}
Responses == {"ok", "http_error", "timeout", "conn_error"}
SearchResults == [title : {<<"t1">>}, primary_link : Links, do_download : BOOLEAN]
Indices == {0, 12}

SummaryFaults == {"none", "makedirs", "open_w", "write_hdr", "open_a", "write_row"}
PdfFaults == {"none", "makedirs", "open_wb", "write_body", "marker_open", "marker_write"}
LinkFaults == {"none", "makedirs", "open_w", "write"}
PageFaults == {"none", "makedirs", "write"}

---------------------------------------------------------------------------
(* Text helpers *)

DigitChars == <<"0", "1", "2", "3", "4", "5", "6", "7", "8", "9">>

RECURSIVE DecDigits(_)
DecDigits(n) ==
    IF n < 10 THEN <<DigitChars[n + 1]>>
    ELSE DecDigits(n \div 10) \o <<DigitChars[(n % 10) + 1]>>

\* str(n) of a Python int
str(n) == IF n < 0 THEN <<"-">> \o DecDigits(-n) ELSE DecDigits(n)

\* s.zfill(width): pad with "0" on the left, after a leading sign
RECURSIVE zfill(_, _)
zfill(s, width) ==
    IF Len(s) >= width THEN s
    ELSE IF s # <<>> /\ s[1] \in {"-", "+"}
         THEN zfill(<<s[1], "0">> \o Tail(s), width)
         ELSE zfill(<<"0">> \o s, width)

\* os.path.basename(p): what follows the last "/"
RECURSIVE basename(_)
basename(p) ==
    IF p = <<>> \/ p[Len(p)] = "/" THEN <<>>
    ELSE basename(SubSeq(p, 1, Len(p) - 1)) \o <<p[Len(p)]>>

BaseDir == <<".">>

\* os.path.join(base_dir, str(search_num).zfill(3)), relative to base_dir
SubDir(search_num) == zfill(str(search_num), FillWidth)

Header == <<"search number, title, link", "\n">>

Row(search_num, title, link) ==
    zfill(str(search_num), FillWidth) \o <<", ">> \o title \o <<", ">> \o link \o <<"\n">>

---------------------------------------------------------------------------
(* Filesystem helpers *)

\* open(path, "w") followed by a write of content: the file is replaced
WriteFile(fs, dir, name, content) ==
    {f \in fs : ~(f[1] = dir /\ f[2] = name)} \cup {<<dir, name, content>>}

\* the names in a directory
Listing(fs, dir) == {f[2] : f \in {g \in fs : g[1] = dir}}

\* the content of a file that exists
Content(fs, dir, name) == (CHOOSE f \in fs : f[1] = dir /\ f[2] = name)[3]

\* open(path, "wb") fails when the path names the directory itself
\* (an empty file name: os.path.join(save_dir, "") is "save_dir/")
IsDirectoryPath(name) == name = <<>>

---------------------------------------------------------------------------
(* The operations.  Each takes the filesystem st = [dirs, files, summary]  *)
(* and returns the filesystem after the call together with                 *)
(*   raised : whether an exception left the function,                      *)
(*   fired  : the fault that actually struck ("none" when the failing      *)
(*            call was not on the executed path).                          *)
(***************************************************************************)

Ret(d, f, s, raised, fired) ==
    [dirs |-> d, files |-> f, summary |-> s, raised |-> raised, fired |-> fired]

\* open(summary_file, "a") and the write of one row
AppendRow(lines, row) == Append(lines, row)

\* a results_summary that opens the file with "w" on every call
NeedsHeaderAlways(s) == TRUE

\* the header is written when os.path.isfile(summary_file) is false
NeedsHeader(s) == ~s.exists

results_summary(st, search_num, title, link, fault) ==
    IF fault = "makedirs"
    THEN Ret(st.dirs, st.files, st.summary, TRUE, fault)
    ELSE
    LET d1 == st.dirs \cup {BaseDir}
        fresh == NeedsHeader(st.summary)
    IN  IF fresh /\ fault = "open_w"
        THEN Ret(d1, st.files, st.summary, TRUE, fault)
        ELSE IF fresh /\ fault = "write_hdr"
        THEN Ret(d1, st.files, [exists |-> TRUE, lines |-> <<>>], TRUE, fault)
        ELSE
        LET s1 == IF fresh THEN [exists |-> TRUE, lines |-> <<Header>>]
                  ELSE st.summary
        IN  IF fault \in {"open_a", "write_row"}
            THEN Ret(d1, st.files, s1, TRUE, fault)
            ELSE Ret(d1, st.files,
                     [exists |-> TRUE,
                      lines |-> AppendRow(s1.lines, Row(search_num, title, link))],
                     FALSE, "none")

\* The body of a marker writer: os.makedirs(os.path.dirname(fname)), then
\* open(fname + suffix, "w") and the write of the message.
WriteMarker(st, dir, name, suffix, msg, fault) ==
    LET d1 == st.dirs \cup {BaseDir, dir}
    IN  IF fault = "marker_open"
        THEN Ret(d1, st.files, st.summary, TRUE, fault)
        ELSE IF fault = "marker_write"
        THEN Ret(d1, WriteFile(st.files, dir, name \o <<suffix>>, <<>>),
                 st.summary, TRUE, fault)
        ELSE Ret(d1, WriteFile(st.files, dir, name \o <<suffix>>, msg),
                 st.summary, FALSE, "none")

\* a timeout handler that writes the generic marker
write_timeout_msg_generic(st, dir, name, link, fault) ==
    WriteMarker(st, dir, name, ".failed.txt",
                <<"recieved an error when trying to download", "\n">> \o link,
                fault)

write_timeout_msg(st, dir, name, link, fault) ==
    WriteMarker(st, dir, name, ".timedout.txt",
                <<"timed out when trying to download,",
                  " please manually download using the link below", "\n">> \o link,
                fault)

write_fail_msg(st, dir, name, link, fault) ==
    WriteMarker(st, dir, name, ".404error.txt",
                <<"recieved 404 error when trying to download", "\n">> \o link,
                fault)

write_generic_fail_msg(st, dir, name, link, fault) ==
    WriteMarker(st, dir, name, ".failed.txt",
                <<"recieved an error when trying to download", "\n">> \o link,
                fault)

\* a try block that saves page.content before page.raise_for_status()
AttemptSavesFirst(fs, dir, name, resp, body, fault) ==
    IF resp = "timeout" THEN [files |-> fs, exc |-> "Timeout", fired |-> "none"]
    ELSE IF resp = "conn_error" THEN [files |-> fs, exc |-> "Other", fired |-> "none"]
    ELSE IF IsDirectoryPath(name) THEN [files |-> fs, exc |-> "Other", fired |-> "none"]
    ELSE IF fault = "open_wb" THEN [files |-> fs, exc |-> "Other", fired |-> fault]
    ELSE IF fault = "write_body"
    THEN [files |-> WriteFile(fs, dir, name, <<>>), exc |-> "Other", fired |-> fault]
    ELSE [files |-> WriteFile(fs, dir, name, body),
          exc |-> IF resp = "http_error" THEN "HTTPError" ELSE "none",
          fired |-> "none"]

\* The try block of save_pdf: requests.get, page.raise_for_status(), then
\* open(fname, "wb") and the write of page.content.  exc is the class of the
\* exception raised inside the block ("none" when it runs to its end).
Attempt(fs, dir, name, resp, body, fault) ==
    IF resp = "timeout" THEN [files |-> fs, exc |-> "Timeout", fired |-> "none"]
    ELSE IF resp = "conn_error" THEN [files |-> fs, exc |-> "Other", fired |-> "none"]
    ELSE IF resp = "http_error" THEN [files |-> fs, exc |-> "HTTPError", fired |-> "none"]
    ELSE IF IsDirectoryPath(name) THEN [files |-> fs, exc |-> "Other", fired |-> "none"]
    ELSE IF fault = "open_wb" THEN [files |-> fs, exc |-> "Other", fired |-> fault]
    ELSE IF fault = "write_body"
    THEN [files |-> WriteFile(fs, dir, name, <<>>), exc |-> "Other", fired |-> fault]
    ELSE [files |-> WriteFile(fs, dir, name, body), exc |-> "none", fired |-> "none"]

\* a handler chain without "except requests.exceptions.Timeout"
HandlerWithoutTimeout(exc) ==
    IF exc = "HTTPError" THEN "write_fail_msg"
    ELSE IF exc = "Other" THEN "write_generic_fail_msg"
    ELSE "propagate"

\* a handler chain without the final "except Exception"
HandlerWithoutCatchAll(exc) ==
    IF exc = "HTTPError" THEN "write_fail_msg"
    ELSE IF exc = "Timeout" THEN "write_timeout_msg"
    ELSE "propagate"

\* The except clauses of save_pdf, in their order
Handler(exc) ==
    IF exc = "HTTPError" THEN "write_fail_msg"
    ELSE IF exc = "Timeout" THEN "write_timeout_msg"
    ELSE IF exc = "Other" THEN "write_generic_fail_msg"
    ELSE "propagate"

\* the timeout save_pdf hands to requests.get
Deadline(timeout) == RequestTimeout

save_pdf(st, search_num, link, timeout, resp, body, fault) ==
    LET save_dir == SubDir(search_num)
        name == basename(link)
        NoReq == [exc |-> "none", requested |-> FALSE, deadline |-> 0]
    IN  IF fault = "makedirs"
        THEN Ret(st.dirs, st.files, st.summary, TRUE, fault) @@ NoReq
        ELSE
        LET d1 == st.dirs \cup {BaseDir, save_dir}
            att == Attempt(st.files, save_dir, name, resp, body, fault)
            s1 == [dirs |-> d1, files |-> att.files, summary |-> st.summary]
            Req == [exc |-> att.exc, requested |-> TRUE, deadline |-> Deadline(timeout)]
            h == Handler(att.exc)
            mfault == IF att.fired = "none" THEN fault ELSE "none"
            Join(r) == [r EXCEPT !.fired = IF r.fired = "none" THEN att.fired ELSE r.fired]
        IN  IF att.exc = "none"
            THEN Ret(d1, att.files, st.summary, FALSE, "none") @@ Req
            ELSE IF h = "write_fail_msg"
            THEN Join(write_fail_msg(s1, save_dir, name, link, mfault)) @@ Req
            ELSE IF h = "write_timeout_msg"
            THEN Join(write_timeout_msg(s1, save_dir, name, link, mfault)) @@ Req
            ELSE IF h = "write_generic_fail_msg"
            THEN Join(write_generic_fail_msg(s1, save_dir, name, link, mfault)) @@ Req
            ELSE Ret(d1, att.files, st.summary, TRUE, att.fired) @@ Req

save_link(st, search_num, link, fault) ==
    IF fault = "makedirs"
    THEN Ret(st.dirs, st.files, st.summary, TRUE, fault)
    ELSE
    LET save_dir == SubDir(search_num)
        d1 == st.dirs \cup {BaseDir, save_dir}
    IN  IF fault = "open_w"
        THEN Ret(d1, st.files, st.summary, TRUE, fault)
        ELSE IF fault = "write"
        THEN Ret(d1, WriteFile(st.files, save_dir, <<"website_link.txt">>, <<>>),
                 st.summary, TRUE, fault)
        ELSE Ret(d1, WriteFile(st.files, save_dir, <<"website_link.txt">>, link),
                 st.summary, FALSE, "none")

\* a get_webpage that warns but forgets "results = 100"
ClampForgotten(results) == results

\* get_webpage: the result count that goes into the query
Clamp(results) == IF results > ResultCeiling THEN ResultCeiling ELSE results

\* get_webpage: whether the SearchWarning is emitted
Warns(results) == results > ResultCeiling

\* url += f"&num={results}"
QueryUrl(u, results) == u \o <<"&num=">> \o str(Clamp(results))

save_google_search(st, u, webpage_text, fault) ==
    IF fault = "makedirs"
    THEN Ret(st.dirs, st.files, st.summary, TRUE, fault)
    ELSE
    LET d1 == st.dirs \cup {BaseDir}
    IN  IF fault = "write"
        THEN Ret(d1, WriteFile(st.files, BaseDir, <<"google-search-term.txt">>, <<>>),
                 st.summary, TRUE, fault)
        ELSE Ret(d1,
                 WriteFile(WriteFile(st.files, BaseDir, <<"google-search-term.txt">>, u),
                           BaseDir, <<"google-search-result.html">>, webpage_text),
                 st.summary, FALSE, "none")

\* net is the outcome of requests.get(url, headers=headers): a connection
\* error raises out of get_webpage before anything is saved
get_webpage(st, u, results, net, fault) ==
    LET q == QueryUrl(u, results)
        W == [fetched |-> q, warned |-> Warns(results)]
    IN  IF net = "conn_error"
        THEN Ret(st.dirs, st.files, st.summary, TRUE, "network") @@ W
        ELSE save_google_search(st, q, <<"page">>, fault) @@ W

---------------------------------------------------------------------------
(* State shared by the three drivers *)

FS == [dirs |-> dirs, files |-> files, summary |-> summary]

Commit(r) == dirs' = r.dirs /\ files' = r.files /\ summary' = r.summary

NoSummary == [exists |-> FALSE, lines |-> <<>>]

\* a download outcome: the response of the GET and, when it is a 2xx, its body
Outcomes ==
    {[resp |-> "ok", body |-> b] : b \in Bodies}
        \cup {[resp |-> r, body |-> <<>>] : r \in Responses \ {"ok"}}

\* the record of one call kept in hist; pre is the listing of the result's
\* subdirectory when the call started
CallRec(op, n, title, link, timeout, o, r, pre) ==
    [op |-> op, search_num |-> n, title |-> title, link |-> link,
     timeout |-> timeout, resp |-> o.resp, body |-> o.body,
     fired |-> r.fired, raised |-> r.raised, exc |-> r.exc,
     requested |-> r.requested, deadline |-> r.deadline, pre |-> pre]

NoOutcome == [resp |-> "-", body |-> <<>>]
NoRequest == [exc |-> "none", requested |-> FALSE, deadline |-> 0]

---------------------------------------------------------------------------
(* search_and_download: one session, whose directory is named after the    *)
(* second the run started in and is new.                                   *)

Init ==
    /\ pc = "start"
    /\ url \in Urls
    /\ resultsArg \in ResultCounts
    /\ fetchedUrl = <<>>
    /\ warned = FALSE
    /\ seen = <<>>
    /\ dirs = {}
    /\ files = {}
    /\ summary = NoSummary
    /\ hist = <<>>

\* enumerate's index of the result being processed, and the result
indx == Len(seen) - 1
search == seen[Len(seen)]

\* a loop body that downloads before it logs
StepAfterSwapped(p) ==
    CASE p = "iterate" -> "dispatch"
      [] p = "dispatch" -> "summary"
      [] p = "summary" -> "iterate"

\* the order of the loop body: the summary row, then the download or the link
StepAfter(p) ==
    CASE p = "iterate" -> "summary"
      [] p = "summary" -> "dispatch"
      [] p = "dispatch" -> "iterate"

\* a dispatcher that downloads every result
ShouldDownloadAlways(r) == TRUE

\* "if search.do_download"
ShouldDownload(r) == r.do_download

\* webpage = get_webpage(url, results=results, base_dir=search_time)
GetWebpage ==
    /\ pc = "start"
    /\ \E net \in {"ok", "conn_error"}, fault \in PageFaults :
        LET r == get_webpage(FS, url, resultsArg, net, fault)
        IN  /\ Commit(r)
            /\ fetchedUrl' = r.fetched
            /\ warned' = r.warned
            /\ hist' = Append(hist, CallRec("get_webpage", 0, <<>>, url, 0,
                                            NoOutcome, r @@ NoRequest, {}))
            /\ pc' = IF r.raised THEN "aborted" ELSE "iterate"
    /\ UNCHANGED <<url, resultsArg, seen>>

\* the iterator yields the next result record
YieldResult ==
    /\ pc = "iterate"
    /\ Len(seen) < MaxResults
    /\ \E r \in SearchResults : seen' = Append(seen, r)
    /\ pc' = StepAfter("iterate")
    /\ UNCHANGED <<url, resultsArg, fetchedUrl, warned, dirs, files, summary, hist>>

\* the iterator is exhausted: the for loop ends
Exhausted ==
    /\ pc = "iterate"
    /\ pc' = "done"
    /\ UNCHANGED <<url, resultsArg, fetchedUrl, warned, seen, dirs, files, summary, hist>>

\* results_summary(indx, search.title, search.primary_link, base_dir=search_time)
Summarise ==
    /\ pc = "summary"
    /\ \E fault \in SummaryFaults :
        LET r == results_summary(FS, indx, search.title, search.primary_link, fault)
        IN  /\ Commit(r)
            /\ hist' = Append(hist, CallRec("results_summary", indx, search.title,
                                            search.primary_link, 0, NoOutcome,
                                            r @@ NoRequest, {}))
            /\ pc' = IF r.raised THEN "aborted" ELSE StepAfter("summary")
    /\ UNCHANGED <<url, resultsArg, fetchedUrl, warned, seen>>

\* save_pdf(indx, search.primary_link, base_dir=search_time)
Download ==
    /\ pc = "dispatch"
    /\ ShouldDownload(search)
    /\ \E o \in Outcomes, fault \in PdfFaults :
        LET r == save_pdf(FS, indx, search.primary_link, DefaultTimeout,
                          o.resp, o.body, fault)
        IN  /\ Commit(r)
            /\ hist' = Append(hist, CallRec("save_pdf", indx, <<>>, search.primary_link,
                                            DefaultTimeout, o, r,
                                            Listing(files, SubDir(indx))))
            /\ pc' = IF r.raised THEN "aborted" ELSE StepAfter("dispatch")
    /\ UNCHANGED <<url, resultsArg, fetchedUrl, warned, seen>>

\* save_link(indx, search.primary_link, base_dir=search_time)
RecordLink ==
    /\ pc = "dispatch"
    /\ ~ShouldDownload(search)
    /\ \E fault \in LinkFaults :
        LET r == save_link(FS, indx, search.primary_link, fault)
        IN  /\ Commit(r)
            /\ hist' = Append(hist, CallRec("save_link", indx, <<>>, search.primary_link,
                                            0, NoOutcome, r @@ NoRequest,
                                            Listing(files, SubDir(indx))))
            /\ pc' = IF r.raised THEN "aborted" ELSE StepAfter("dispatch")
    /\ UNCHANGED <<url, resultsArg, fetchedUrl, warned, seen>>

Next ==
    \/ GetWebpage
    \/ YieldResult
    \/ Exhausted
    \/ Summarise
    \/ Download
    \/ RecordLink

Spec == Init /\ [][Next]_vars

---------------------------------------------------------------------------
(* Direct callers of save_pdf and save_link against one base_dir, as when  *)
(* two runs are pointed at the same directory.                             *)

InitCalls ==
    /\ pc = "calls"
    /\ url = <<>>
    /\ resultsArg = ResultCeiling
    /\ fetchedUrl = <<>>
    /\ warned = FALSE
    /\ seen = <<>>
    /\ dirs = {}
    /\ files = {}
    /\ summary = NoSummary
    /\ hist = <<>>

CallFaults == {"none", "open_wb", "write_body"}

CallSavePdf ==
    /\ pc = "calls"
    /\ Len(hist) < MaxCalls
    /\ \E n \in Indices, link \in Links, t \in Timeouts,
          o \in Outcomes, fault \in CallFaults :
        LET r == save_pdf(FS, n, link, t, o.resp, o.body, fault)
        IN  /\ Commit(r)
            /\ hist' = Append(hist, CallRec("save_pdf", n, <<>>, link, t, o, r,
                                            Listing(files, SubDir(n))))
    /\ UNCHANGED <<pc, url, resultsArg, fetchedUrl, warned, seen>>

CallSaveLink ==
    /\ pc = "calls"
    /\ Len(hist) < MaxCalls
    /\ \E n \in Indices, link \in Links, fault \in {"none", "write"} :
        LET r == save_link(FS, n, link, fault)
        IN  /\ Commit(r)
            /\ hist' = Append(hist, CallRec("save_link", n, <<>>, link, 0, NoOutcome,
                                            r @@ NoRequest, Listing(files, SubDir(n))))
    /\ UNCHANGED <<pc, url, resultsArg, fetchedUrl, warned, seen>>

NextCalls ==
    \/ CallSavePdf
    \/ CallSaveLink

SpecCalls == InitCalls /\ [][NextCalls]_vars

---------------------------------------------------------------------------
(* Direct callers of results_summary against one base_dir *)

InitLog ==
    /\ pc = "log"
    /\ url = <<>>
    /\ resultsArg = ResultCeiling
    /\ fetchedUrl = <<>>
    /\ warned = FALSE
    /\ seen = <<>>
    /\ dirs = {}
    /\ files = {}
    /\ summary = NoSummary
    /\ hist = <<>>

CallResultsSummary ==
    /\ pc = "log"
    /\ Len(hist) < MaxLogCalls
    /\ \E n \in Indices, title \in Titles, link \in Links,
          fault \in {"none", "write_hdr", "write_row"} :
        LET r == results_summary(FS, n, title, link, fault)
        IN  /\ Commit(r)
            /\ hist' = Append(hist, CallRec("results_summary", n, title, link, 0,
                                            NoOutcome, r @@ NoRequest, {}))
    /\ UNCHANGED <<pc, url, resultsArg, fetchedUrl, warned, seen>>

NextLog == CallResultsSummary

SpecLog == InitLog /\ [][NextLog]_vars

---------------------------------------------------------------------------
(* Vocabulary of the properties *)

LastCall == hist[Len(hist)]

\* the rows a result sequence leaves in the summary, in index order
RowsOf(rs) == [i \in 1..Len(rs) |-> Row(i - 1, rs[i].title, rs[i].primary_link)]

\* a failure of the local filesystem struck in call h
LocalFailure(h) == h.fired \notin {"none", "network"}

\* the save_pdf / save_link call for index n returned normally
Processed(n) ==
    \E k \in DOMAIN hist :
        /\ hist[k].op \in {"save_pdf", "save_link"}
        /\ hist[k].search_num = n
        /\ ~hist[k].raised

\* a GET was issued for index n
Requested(n) ==
    \E k \in DOMAIN hist : hist[k].search_num = n /\ hist[k].requested

\* the primary outcome artifact type a file name stands for
ArtifactType(name) ==
    IF name = <<"website_link.txt">> THEN "link"
    ELSE IF name[Len(name)] = ".404error.txt" THEN "notfound"
    ELSE IF name[Len(name)] = ".timedout.txt" THEN "timedout"
    ELSE IF name[Len(name)] = ".failed.txt" THEN "failed"
    ELSE "file"

ArtifactTypes(dir) == {ArtifactType(n) : n \in Listing(files, dir)}

ResultDirs == dirs \ {BaseDir}

\* the calls of save_pdf / save_link made for subdirectory dir
CallsOn(dir) ==
    {k \in DOMAIN hist : /\ hist[k].op \in {"save_pdf", "save_link"}
                         /\ SubDir(hist[k].search_num) = dir}

\* the rows appended by the calls of results_summary that returned
RECURSIVE LoggedRows(_)
LoggedRows(h) ==
    IF h = <<>> THEN <<>>
    ELSE LET l == h[Len(h)]
             front == LoggedRows(SubSeq(h, 1, Len(h) - 1))
         IN  IF l.op = "results_summary" /\ ~l.raised
             THEN Append(front, Row(l.search_num, l.title, l.link))
             ELSE front

\* indices with a summary row, and indices with an outcome artifact
RowIndices ==
    {i \in 0..(Len(seen) - 1) :
        \E k \in DOMAIN summary.lines :
            summary.lines[k] = Row(i, seen[i + 1].title, seen[i + 1].primary_link)}

ArtifactIndices == {i \in 0..(Len(seen) - 1) : Listing(files, SubDir(i)) # {}}

---------------------------------------------------------------------------
(* Properties of search_and_download (Spec) *)

\* C1, as stated: whenever the run ends, results_summary.csv holds the header
\* row followed by one row per result, in index order, for every length N of
\* the result sequence and every combination of download outcomes.
C1_HeaderAndRowsForEveryN ==
    pc = "done" =>
        /\ summary.exists
        /\ summary.lines = <<Header>> \o RowsOf(seen)

\* C1, amended: a run over N >= 1 results ends with the header row followed by
\* exactly N rows in index order, whatever the download outcomes were; over
\* N = 0 results results_summary.csv is never created; and no download
\* outcome stops the run: a run stops early only when a filesystem call
\* failed or the search page could not be fetched.
C1_RowsForEveryOutcome ==
    /\ pc = "done" /\ Len(seen) > 0 =>
        /\ summary.exists
        /\ summary.lines = <<Header>> \o RowsOf(seen)
    /\ pc = "done" /\ Len(seen) = 0 => ~summary.exists
    /\ pc = "aborted" => LastCall.raised /\ LastCall.fired # "none"
    /\ \A k \in DOMAIN hist :
        hist[k].op = "save_pdf" /\ hist[k].fired = "none" => ~hist[k].raised

\* a finished run of two results whose first download timed out
C1_Witness ==
    /\ pc = "done"
    /\ Len(seen) = 2
    /\ \E k \in DOMAIN hist :
        /\ hist[k].op = "save_pdf"
        /\ hist[k].search_num = 0
        /\ hist[k].resp = "timeout"
    /\ Len(summary.lines) = 3

\* C4: a result with do_download = false, once processed, has caused no
\* network request, and its subdirectory (index zero-padded to 3 digits)
\* holds exactly website_link.txt, whose content is the link verbatim.
C4_LinkOnlyResult ==
    \A i \in 1..Len(seen) :
        (~seen[i].do_download /\ Processed(i - 1)) =>
            /\ ~Requested(i - 1)
            /\ Listing(files, SubDir(i - 1)) = {<<"website_link.txt">>}
            /\ Content(files, SubDir(i - 1), <<"website_link.txt">>)
                  = seen[i].primary_link
            /\ Len(SubDir(i - 1)) = FillWidth

C4_Witness ==
    /\ pc = "done"
    /\ \E i \in 1..Len(seen) : ~seen[i].do_download /\ Processed(i - 1)
    /\ \E i \in 1..Len(seen) : seen[i].do_download /\ Requested(i - 1)

\* C5: the URL get_webpage fetches is the input url followed by "&num=" and
\* min(results, 100); a SearchWarning is emitted exactly when results > 100,
\* and it does not abort the call.
C5_ClampedQuery ==
    pc # "start" =>
        /\ fetchedUrl = url \o <<"&num=">>
              \o str(IF resultsArg <= 100 THEN resultsArg ELSE 100)
        /\ warned = (resultsArg > 100)
        /\ hist[1].raised => hist[1].fired # "none"
        /\ ~hist[1].raised =>
              Content(files, BaseDir, <<"google-search-term.txt">>) = fetchedUrl

C5_Witness ==
    /\ pc = "iterate"
    /\ resultsArg = 150
    /\ warned
    /\ fetchedUrl[Len(fetchedUrl)] = "0"
    /\ Len(fetchedUrl) = Len(url) + 4

C9_RowBeforeArtifact ==
    /\ ArtifactIndices \subseteq RowIndices
    /\ Cardinality(RowIndices \ ArtifactIndices) <= 1
    /\ \A k \in DOMAIN hist :
        hist[k].op \in {"save_pdf", "save_link"} =>
            \E j \in 1..(k - 1) :
                /\ hist[j].op = "results_summary"
                /\ hist[j].search_num = hist[k].search_num
                /\ ~hist[j].raised
    /\ \A k \in DOMAIN hist :
        hist[k].op = "results_summary" =>
            \A m \in 0..(hist[k].search_num - 1) : m \in ArtifactIndices

\* the row of the second result is written and its download has not started
C9_Witness ==
    /\ pc = "dispatch"
    /\ Len(seen) = 2
    /\ RowIndices = {0, 1}
    /\ ArtifactIndices = {0}

---------------------------------------------------------------------------
(* Properties of save_pdf and save_link under direct calls (SpecCalls) *)

\* the file a save_pdf call is to leave: the marker of the error class raised
\* in the download attempt, or the downloaded file when none was raised
ExpectedArtifact(h) ==
    basename(h.link) \o
        (IF h.resp = "http_error" THEN <<".404error.txt">>
         ELSE IF h.resp = "timeout" THEN <<".timedout.txt">>
         ELSE IF h.resp = "conn_error" \/ h.exc # "none" THEN <<".failed.txt">>
         ELSE <<>>)

C3_BodySavedForEveryLink ==
    (/\ Len(hist) > 0
     /\ LastCall.op = "save_pdf"
     /\ LastCall.resp = "ok"
     /\ LastCall.fired = "none") =>
        /\ ~LastCall.raised
        /\ \E f \in files :
            /\ f[1] = SubDir(LastCall.search_num)
            /\ f[2] = basename(LastCall.link)
            /\ f[3] = LastCall.body

\* C7: the deadline applied to the GET of save_pdf equals the timeout argument
\* of the call.
C7_DeadlineIsTimeoutArgument ==
    (/\ Len(hist) > 0
     /\ LastCall.op = "save_pdf"
     /\ LastCall.requested) =>
        LastCall.deadline = LastCall.timeout

\* C10, as stated (already for calls in which no filesystem fault strikes):
\* after any sequence of save_pdf and save_link calls each result
\* subdirectory holds at most one primary outcome artifact type.
C10_OneTypeAfterAnyCalls ==
    (\A k \in DOMAIN hist : hist[k].fired = "none") =>
        \A d \in ResultDirs : Cardinality(ArtifactTypes(d)) <= 1

\* C10, amended: a result subdirectory that has received one save_pdf or
\* save_link call holds at most one primary outcome artifact type, except
\* that a downloaded file whose write failed part-way stays, incomplete,
\* beside the .failed.txt marker.
C10_OneTypePerSingleCall ==
    \A d \in ResultDirs :
        Cardinality(CallsOn(d)) = 1 =>
            LET k == CHOOSE j \in CallsOn(d) : TRUE
            IN  IF hist[k].fired = "write_body"
                THEN ArtifactTypes(d) = {"file", "failed"}
                ELSE Cardinality(ArtifactTypes(d)) <= 1

\* two subdirectories, one call each: a 404 marker and a link file
C10_Witness ==
    /\ Len(hist) = 2
    /\ ArtifactTypes(SubDir(0)) = {"notfound"}
    /\ ArtifactTypes(SubDir(12)) = {"link"}

---------------------------------------------------------------------------
(* Properties of results_summary under direct calls (SpecLog) *)

\* C6: the summary log is append-only: over any sequence of results_summary
\* calls against one base_dir the file is the header row, written once as the
\* first line, followed by one row per call that returned, in call order (as
\* long as no write of the header itself has failed).
C6_AppendOnlyLog ==
    (\A k \in DOMAIN hist : hist[k].fired # "write_hdr") =>
        /\ summary.exists = (Len(hist) > 0)
        /\ summary.exists => summary.lines = <<Header>> \o LoggedRows(hist)

\* three calls that returned, the third repeating the index of the first
C6_Witness ==
    /\ Len(hist) = 3
    /\ \A k \in DOMAIN hist : ~hist[k].raised
    /\ hist[1].search_num = hist[3].search_num
    /\ hist[1].title # hist[3].title
    /\ Len(summary.lines) = 4

====
